---- MODULE Spec2Model ----
(***************************************************************************)
(* Entry-trajectory propagation of sim_server/OP/main.py                   *)
(* (high_fidelity_simulation) with the equations of motion of entryeoms.py *)
(* as a state machine over fixed-point numbers (Spec), the endpoint that   *)
(* serves it (ServerSpec), the helper functions called on their own        *)
(* (CallSpec) and the tile proxy (TileSpec).                               *)
(*                                                                         *)
(* Number model.  Floating point is replaced by exact integer lattices:    *)
(*   - time is counted in ticks of 0.5e-12 s, so the epsilon 1e-12 of the  *)
(*     resampling grid is Eps = 2 ticks; dt and time_limit are scaled      *)
(*     down to a few ticks so that a grid has a handful of points;         *)
(*   - an angle is an index 0..11 into the twelve directions of the        *)
(*     circle whose sine and cosine are exact multiples of 1/5 (the        *)
(*     3-4-5 directions and the axes), so sin and cos are integers /5 and  *)
(*     cos is exactly 0 at the poles;                                      *)
(*   - lengths and speeds are integers; a quotient is rounded toward zero; *)
(*   - a density is an exact fraction [num, den].                          *)
(* solve_ivp (SciPy) is modelled at the level of its accepted steps: one   *)
(* derivative evaluation at the start of a step, an explicit update, the   *)
(* event test between the two ends of the step, a root search on the dense *)
(* output of the step.                                                     *)
(***************************************************************************)
EXTENDS Integers, Sequences, FiniteSets, TLC

VARIABLES
    pc,               \* position in high_fidelity_simulation
    ODE_terminal_index,
    planet, init, vehicle, control, return_states,
    benchmark_file,   \* whether benchmark_DOP853_1e9.npz is in the working directory
    simulation_termination,
    t, x, g,          \* solver: time, state, event value at the last accepted point
    ts, interpolants, \* solver: accepted times, dense output of each accepted step
    status,           \* solver: "running", "event" (1), "finished" (0), "failed" (-1)
    n_steps,          \* accepted solver steps
    ev,               \* the event values at the two ends of the step that stopped the run
    lookup,           \* last atmosphere lookup: altitude and density used
    time_array, states, pos_inertial, vel_inertial,
    grid,             \* the untrimmed resampling grid and positions, kept for reference
    result, err,
    PLANETS, VEHICLES, \* the registries of constants/planets.py and constants/vehicles.py
    request, response, \* the HTTP request being served and the response returned
    log,              \* diagnostics emitted so far (logger records)
    call, ret,        \* a call of a helper function and what it returned
    tile_cache,       \* the files under TILE_CACHE_DIR
    upstream,         \* what the upstream tile server answers
    fetched           \* the upstream requests made while serving the tile request

vars == <<pc, ODE_terminal_index, planet, init, vehicle, control, return_states,
          benchmark_file, simulation_termination, t, x, g, ts, interpolants,
          status, n_steps, ev, lookup, time_array, states, pos_inertial,
          vel_inertial, grid, result, err, PLANETS, VEHICLES, request, response,
          log, call, ret, tile_cache, upstream, fetched>>

-----------------------------------------------------------------------------
(* Bounds of the model *)

MaxGrid == 4     \* time_limit in units of dt
MinStep == 2     \* smallest solver step the error control selects, in ticks
MaxStep == 3     \* largest solver step, in ticks

(* Program constants, in model units *)

Eps == 2            \* 1e-12 s, in ticks of 0.5e-12 s
DT == 4             \* simulation_termination["dt"], scaled to ticks
TermAltitude == 2   \* 6500 m, in altitude units of 3250 m
MachOne == 5        \* 236.38 m/s, in speed units of 47.276 m/s
QuarterTurn == 3    \* pi/2 as a direction index
RhoColumn == 4      \* .iloc[:,3]
AltColumn == 1      \* .iloc[:,0]

TimeLimit == MaxGrid * DT

None == "None"

(* A start_time_s entry of the init dictionary: a missing key, None, or a number *)
Absent == [kind |-> "absent", v |-> 0]
NoneValue == [kind |-> "none", v |-> 0]
Float(n) == [kind |-> "float", v |-> n]

-----------------------------------------------------------------------------
(* Trigonometry on the twelve exact directions *)

CosTable == <<5, 4, 3, 0, -3, -4, -5, -4, -3, 0, 3, 4>>
SinTable == <<0, 3, 4, 5, 4, 3, 0, -3, -4, -5, -4, -3>>

Angles == 0 .. (Len(CosTable) - 1)

Turn(a) == a % Len(CosTable)

Cos5(a) == CosTable[Turn(a) + 1]
Sin5(a) == SinTable[Turn(a) + 1]

Min(a, b) == IF a <= b THEN a ELSE b

(* Quotient rounded toward zero, for a divisor of either sign *)
Abs(a) == IF a < 0 THEN 0 - a ELSE a

Quot(a, b) ==
    IF (a < 0) = (b < 0) THEN Abs(a) \div Abs(b) ELSE 0 - (Abs(a) \div Abs(b))

-----------------------------------------------------------------------------
(* Inputs: planet, vehicle, control and initial conditions *)

(* table columns: H[m], T[K], P[N/m2], rho[kg/m3], a[m/s]; rows ascending in H *)
AtmosphereLow == << <<1, 20, 30, 8, 40>>, <<4, 21, 31, 2, 41>>, <<10, 22, 32, 0, 42>> >>
AtmosphereHigh == << <<2, 20, 30, 6, 40>>, <<5, 21, 31, 3, 41>>, <<7, 22, 32, 1, 42>> >>

Planets == { [mu |-> 2000000, rp |-> 1000, atmosphere_model |-> AtmosphereLow],
             [mu |-> 2000000, rp |-> 1000, atmosphere_model |-> AtmosphereHigh] }

Vehicles == { [beta |-> 200, LD |-> [num |-> 6, den |-> 25]] }

Controls == { [bank_angle |-> 1] }

Inits == [ h0 : {1, 2, 9}, vel0 : {0, 5, 10}, theta0 : {11}, phi0 : {1, 3},
           gamma0 : {1, 9, 11}, psi0 : {0}, start_time_s : {Absent, NoneValue, Float(3)} ]

TerminalIndices == {0, 1, 3}

(* A string is the sequence of its character codes *)
MarsName == <<109, 97, 114, 115>>                \* "mars"
DefaultName == <<100, 101, 102, 97, 117, 108, 116>>   \* "default"

(* str.lower() *)
Lower(s) == [ i \in 1 .. Len(s) |-> IF s[i] \in 65 .. 90 THEN s[i] + 32 ELSE s[i] ]

(* dict.get(key): the value in a one-element sequence, or the empty sequence for None *)
Get(dict, key) == IF key \in DOMAIN dict THEN << dict[key] >> ELSE << >>

(* PLANETS and VEHICLES as loaded at import: one entry each *)
PlanetRegistry(pl) == [ name \in {MarsName} |-> pl ]
VehicleRegistry(veh) == [ name \in {DefaultName} |-> veh ]

(* An optional string: None or the string *)
NoName == [kind |-> "none", s |-> << >>]
Name(s) == [kind |-> "str", s |-> s]

-----------------------------------------------------------------------------
(* constants/defaults.py.  A dict is a function on its keys; a value carries
   its kind, "none" for None. *)

DEFAULT_PLANET == [planet_name |-> Name(MarsName)]

DEFAULT_INIT == [h0 |-> Float(9), vel0 |-> Float(10), theta0 |-> Float(11),
                 phi0 |-> Float(1), gamma0 |-> Float(11), psi0 |-> Float(0)]

DEFAULT_VEHICLE == [vehicle_name |-> Name(DefaultName)]

DEFAULT_CONTROL == [bank_angle |-> Float(1)]

(* Mutant of override_defaults: the result is built in the defaults mapping
   itself instead of in a copy *)
override_defaults_in_place(defaults, overrides) ==
    LET given == { k \in DOMAIN overrides : overrides[k].kind # "none" }
        merged == [ k \in (DOMAIN defaults) \cup given |->
                      IF k \in given THEN overrides[k] ELSE defaults[k] ]
    IN  [result |-> merged, defaults |-> merged]

(* The mapping returned, and the defaults mapping as the call leaves it *)
override_defaults(defaults, overrides) ==
    LET given == { k \in DOMAIN overrides : overrides[k].kind # "none" }
        merged == [ k \in (DOMAIN defaults) \cup given |->
                      IF k \in given THEN overrides[k] ELSE defaults[k] ]
    IN  [result |-> merged, defaults |-> defaults]

-----------------------------------------------------------------------------
(* server_helpers.py: serialization.  A value of a results mapping carries
   its kind: "ndarray", "float64" (NumPy scalar), "float", "list", "tuple". *)

HasToList(value) == value.kind \in {"ndarray", "float64"}

(* value.tolist() *)
ToList(value) ==
    IF value.kind = "ndarray" THEN [kind |-> "list", v |-> value.v]
    ELSE [kind |-> "float", v |-> value.v]

serialize_simulation_results_to_lists(results) ==
    LET converted == { key \in DOMAIN results : results[key].kind \notin {"list", "tuple"} }
    IN  [ key \in converted |->
            IF HasToList(results[key]) THEN ToList(results[key]) ELSE results[key] ]

(* pa.array(value) raises for a scalar, and the key is then skipped; the
   table is sent as an Arrow stream *)
serialize_simulation_results_to_arrow(results) ==
    LET arrow_ready == { key \in DOMAIN results :
                           results[key].kind \in {"ndarray", "list", "tuple"} }
    IN  [ media_type |-> "application/vnd.apache.arrow.stream",
          table |-> [ key \in arrow_ready |-> results[key].v ] ]

serialize_simulation_results(results, use_arrow) ==
    IF use_arrow
    THEN serialize_simulation_results_to_arrow(results)
    ELSE [ media_type |-> "application/json",
           table |-> serialize_simulation_results_to_lists(results) ]

-----------------------------------------------------------------------------
(* Atmosphere lookup: np.interp(h, altitudes_data, rhos_data) *)

Column(table, c) == [ i \in 1 .. Len(table) |-> table[i][c] ]

(* Mutant of Interp: extrapolates the first and the last segment instead of
   holding the end values *)
InterpExtrapolate(h, xp, fp) ==
    LET n == Len(xp)
        j == IF h < xp[1] THEN 1
             ELSE IF h >= xp[n] THEN n - 1
             ELSE CHOOSE i \in 1 .. (n - 1) : xp[i] <= h /\ h < xp[i + 1]
    IN  [num |-> fp[j] * (xp[j + 1] - xp[j]) + (fp[j + 1] - fp[j]) * (h - xp[j]),
         den |-> xp[j + 1] - xp[j]]

Interp(h, xp, fp) ==
    LET n == Len(xp) IN
    IF h > xp[n] THEN [num |-> fp[n], den |-> 1]
    ELSE IF h < xp[1] THEN [num |-> fp[1], den |-> 1]
    ELSE LET j == CHOOSE i \in 1 .. n :
                      /\ xp[i] <= h
                      /\ \A k \in 1 .. n : xp[k] <= h => k <= i
         IN  IF j = n \/ xp[j] = h
             THEN [num |-> fp[j], den |-> 1]
             ELSE [num |-> fp[j] * (xp[j + 1] - xp[j]) + (fp[j + 1] - fp[j]) * (h - xp[j]),
                   den |-> xp[j + 1] - xp[j]]

Density(r, pl) ==
    Interp(r - pl.rp, Column(pl.atmosphere_model, AltColumn),
           Column(pl.atmosphere_model, RhoColumn))

-----------------------------------------------------------------------------
(* Equations of motion.  x = <<r, theta, phi, V, gamma, psi>>.  A quotient  *)
(* whose divisor is zero makes the derivative non-finite (inf or nan).     *)

Finite(xx, pl, veh) ==
    /\ xx[1] * Cos5(xx[3]) # 0           \* thetadot, tan(phi)
    /\ xx[1] # 0                         \* phidot, veldot, gammadot, psidot
    /\ 2 * veh.beta # 0
    /\ xx[4] * xx[1] * xx[1] # 0         \* gammadot
    /\ 2 * veh.beta * Cos5(xx[5]) # 0    \* psidot

entryeoms(tt, xx, pl, veh, ctl) ==
    LET r == xx[1]
        phi == xx[3]
        V == xx[4]
        gamma == xx[5]
        psi == xx[6]
        mu == pl.mu
        beta == veh.beta
        LD == veh.LD
        bank == ctl.bank_angle
        rho == Density(r, pl)
        raddot == Quot(V * Sin5(gamma), 5)
        thetadot == Quot(V * Cos5(gamma) * Cos5(psi), 5 * r * Cos5(phi))
        phidot == Quot(V * Cos5(gamma) * Sin5(psi), 25 * r)
        veldot == Quot(0 - rho.num * V * V, 2 * beta * rho.den)
                  - Quot(mu * Sin5(gamma), 5 * r * r)
        gammadot == Quot(V * Cos5(gamma), 5 * r)
                    + Quot(rho.num * V * LD.num * Cos5(bank),
                           2 * beta * rho.den * LD.den * 5)
                    - Quot(mu * Cos5(gamma), 5 * V * r * r)
        psidot == Quot(rho.num * V * LD.num * Sin5(bank),
                       2 * beta * rho.den * LD.den * Cos5(gamma))
                  - Quot(V * Cos5(gamma) * Cos5(psi) * Sin5(phi), 25 * r * Cos5(phi))
    IN  IF Finite(xx, pl, veh)
        THEN [finite |-> TRUE,
              d |-> <<raddot, thetadot, phidot, veldot, gammadot, psidot>>]
        ELSE [finite |-> FALSE, d |-> << >>]

rhs(tt, xx) == entryeoms(tt, xx, planet, vehicle, control)

-----------------------------------------------------------------------------
(* make_event: the event function and its attributes *)

EventValue(ind, term, xx) == xx[ind + 1] - term

EventTerminal == TRUE

EventDirection == -1

(* Mutant of ActiveEvent: the direction attribute is ignored *)
ActiveEventEither(g_old, g_new, direction) ==
    \/ g_old <= 0 /\ g_new >= 0
    \/ g_old >= 0 /\ g_new <= 0

(* solve_ivp, find_active_events: sign change between the two ends of a step *)
ActiveEvent(g_old, g_new, direction) ==
    LET up == g_old <= 0 /\ g_new >= 0
        down == g_old >= 0 /\ g_new <= 0
    IN  \/ up /\ direction > 0
        \/ down /\ direction < 0
        \/ (up \/ down) /\ direction = 0

-----------------------------------------------------------------------------
(* solve_ivp: one accepted step and its dense output *)

(* explicit update of the state over a step of h ticks *)
Advance(xx, f, h) == [ i \in 1 .. 6 |-> xx[i] + h * f[i] ]

(* dense output of one step, evaluated at time tau *)
DenseOutput(seg, tau) ==
    [ i \in 1 .. 6 |->
        seg.y_old[i] + Quot((tau - seg.t_old) * (seg.y[i] - seg.y_old[i]), seg.t - seg.t_old) ]

(* solve_event_equation: the first tick of the step at which the event value
   is no longer positive *)
Root(seg, ind, term) ==
    CHOOSE tau \in seg.t_old .. seg.t :
        /\ EventValue(ind, term, DenseOutput(seg, tau)) <= 0
        /\ \A u \in seg.t_old .. (tau - 1) : EventValue(ind, term, DenseOutput(seg, u)) > 0

(* OdeSolution.__init__: the accepted times must be strictly increasing,
   except for an integration over a zero segment *)
ValidTimes(tseq) ==
    \/ Len(tseq) = 2 /\ tseq[1] = tseq[2]
    \/ \A i \in 1 .. (Len(tseq) - 1) : tseq[i] < tseq[i + 1]

(* OdeSolution.__call__: searchsorted(ts, tau, side="right") - 1, clipped to
   the segments; -1 when there is no segment *)
Segment(tseq, nseg, tau) ==
    LET s0 == Cardinality({ i \in 1 .. Len(tseq) : tseq[i] <= tau }) - 1
        s1 == IF s0 < 0 THEN 0 ELSE s0
    IN  IF s1 > nseg - 1 THEN nseg - 1 ELSE s1

Sol(tseq, segs, tau) == DenseOutput(segs[Segment(tseq, Len(segs), tau) + 1], tau)

-----------------------------------------------------------------------------
(* Resampling and conversion *)

(* Mutant of Arange: as many points, spread evenly from start to stop *)
ArangeLinspace(start, stop, step) ==
    LET n == 0 - ((start - stop) \div step)
    IN  [ k \in 1 .. (IF n > 0 THEN n ELSE 0) |->
            IF n = 1 THEN start ELSE start + ((k - 1) * (stop - start)) \div (n - 1) ]

(* np.arange(start, stop, step): ceil((stop - start) / step) points *)
Arange(start, stop, step) ==
    LET n == 0 - ((start - stop) \div step)
    IN  [ k \in 1 .. (IF n > 0 THEN n ELSE 0) |-> start + (k - 1) * step ]

(* spherical to inertial Cartesian position, in units of 1/25 *)
Position(st) ==
    LET r == st[1]
        theta == st[2]
        phi == st[3]
        co_latitude == QuarterTurn - phi
    IN  << r * Sin5(co_latitude) * Cos5(theta),
           r * Sin5(co_latitude) * Sin5(theta),
           r * Cos5(co_latitude) * 5 >>

Diff(a, b) == [ c \in 1 .. 3 |-> a[c] - b[c] ]

(* Mutant of FiniteDifference: forward differences at the interior points *)
FiniteDifferenceForward(pos, dt) ==
    LET n == Len(pos) IN
    [ i \in 1 .. n |->
        IF i = n THEN [num |-> Diff(pos[n], pos[n - 1]), den |-> dt]
        ELSE [num |-> Diff(pos[i + 1], pos[i]), den |-> dt] ]

(* velocities by finite differences: a velocity is the vector num / den *)
FiniteDifference(pos, dt) ==
    LET n == Len(pos) IN
    [ i \in 1 .. n |->
        IF i = 1 THEN [num |-> Diff(pos[2], pos[1]), den |-> dt]
        ELSE IF i = n THEN [num |-> Diff(pos[n], pos[n - 1]), den |-> dt]
        ELSE [num |-> Diff(pos[i + 1], pos[i - 1]), den |-> 2 * dt] ]

(* Mutant of Trim: only the first sample is dropped, a[1:] *)
TrimFirstOnly(a) == SubSeq(a, 2, Len(a))

(* a[1:-1] *)
Trim(a) == SubSeq(a, 2, Len(a) - 1)

(* init.get("start_time_s", 0.0) *)
StartTime(ini) == IF ini.start_time_s.kind = "absent" THEN Float(0) ELSE ini.start_time_s

Shift(times, by) == [ i \in 1 .. Len(times) |-> times[i] + by ]

Component(vecs, c) == [ i \in 1 .. Len(vecs) |-> vecs[i][c] ]

VelComponent(vels, c) ==
    [ i \in 1 .. Len(vels) |-> [num |-> vels[i].num[c], den |-> vels[i].den] ]

-----------------------------------------------------------------------------
(* Coordinate transforms (OP/coordinates.py).  A Cartesian length is counted
   in 1/25 of the radial length unit and a Cartesian speed in 1/625 of the
   speed unit, so that the products of two, respectively four, sines and
   cosines are integers.  An angle returned by arctan2 or arccos is a signed
   direction index in their principal ranges. *)

PosScale == Cos5(0) * Cos5(0)
VelScale == PosScale * PosScale

HalfTurn == Len(CosTable) \div 2

Dot(a, b) == a[1] * b[1] + a[2] * b[2] + a[3] * b[3]

RECURSIVE SqrtSearch(_, _, _)
SqrtSearch(lo, hi, n) ==
    IF lo >= hi THEN lo
    ELSE LET mid == (lo + hi + 1) \div 2
         IN  IF mid * mid <= n THEN SqrtSearch(mid, hi, n) ELSE SqrtSearch(lo, mid - 1, n)

(* np.sqrt of a non-negative number *)
Sqrt(n) == SqrtSearch(0, IF n < 46340 THEN n ELSE 46340, n)

(* the principal range (-pi, pi] of arctan2, as direction indices *)
PrincipalRange == (1 - HalfTurn) .. HalfTurn

(* 5 |p| cos of the angle between the point p = (x2, x1) and direction a *)
Along(x1, x2, a) == x2 * Cos5(a) + x1 * Sin5(a)

(* Mutant of ArcTan2: the two arguments are taken in the other order *)
ArcTan2Swapped(x1, x2) ==
    IF x2 = 0 /\ x1 = 0 THEN 0
    ELSE CHOOSE a \in PrincipalRange :
             \A b \in PrincipalRange : Along(x2, x1, a) >= Along(x2, x1, b)

(* np.arctan2(x1, x2): the direction of the point (x2, x1) in (-pi, pi], the
   nearest of the twelve directions when the point lies between two of them;
   arctan2(0, 0) = 0 *)
ArcTan2(x1, x2) ==
    IF x2 = 0 /\ x1 = 0 THEN 0
    ELSE CHOOSE a \in PrincipalRange :
             \A b \in PrincipalRange : Along(x1, x2, a) >= Along(x1, x2, b)

(* np.acos(z / r): the angle in [0, pi] whose cosine is z / r, the nearest of
   the directions when z / r lies between two of their cosines *)
ArcCos(z, r) ==
    CHOOSE a \in 0 .. HalfTurn :
        \A b \in 0 .. HalfTurn :
            Abs(Cos5(a) * r - Cos5(0) * z) <= Abs(Cos5(b) * r - Cos5(0) * z)

(* 25 times the direction cosine matrix, rows ECEF, columns East, North, Up *)
DCM_ENU_2_ECEF(theta, phi) ==
    << << 0 - Cos5(0) * Sin5(theta), 0 - Cos5(theta) * Sin5(phi), Cos5(theta) * Cos5(phi) >>,
       << Cos5(0) * Cos5(theta), 0 - Sin5(theta) * Sin5(phi), Cos5(phi) * Sin5(theta) >>,
       << 0, Cos5(0) * Cos5(phi), Cos5(0) * Sin5(phi) >> >>

Transpose(m) == [ i \in 1 .. 3 |-> [ j \in 1 .. 3 |-> m[j][i] ] ]

MatVec(m, v) == [ i \in 1 .. 3 |-> Dot(m[i], v) ]

Cartesian_to_Spherical(Cartesian_point) ==
    LET pos == << Cartesian_point.x, Cartesian_point.y, Cartesian_point.z >>
        v == << Cartesian_point.vx, Cartesian_point.vy, Cartesian_point.vz >>
        r == Sqrt(Dot(pos, pos))
        theta == ArcTan2(Cartesian_point.y, Cartesian_point.x)
        phi == QuarterTurn - ArcCos(Cartesian_point.z, r)
        V_mag == Sqrt(Dot(v, v))
        V_r == Quot(Dot(v, pos), r)
        V_theta == Sqrt(V_mag * V_mag - V_r * V_r)
        gamma == ArcTan2(V_r, V_theta)
        V_ENU == MatVec(Transpose(DCM_ENU_2_ECEF(theta, phi)), v)
        psi == ArcTan2(V_ENU[2], V_ENU[1])
    IN  [ r |-> Quot(r, PosScale), theta |-> theta, phi |-> phi,
          V |-> Quot(V_mag, VelScale), psi |-> psi, gamma |-> gamma ]

(* The velocity of a state in the local East-North-Up frame, times 25: the
   kinematic equations give r cos(phi) thetadot = V cos(gamma) cos(psi) (East),
   r phidot = V cos(gamma) sin(psi) (North) and rdot = V sin(gamma) (Up) *)
VelocityENU(st) ==
    << st[4] * Cos5(st[5]) * Cos5(st[6]),
       st[4] * Cos5(st[5]) * Sin5(st[6]),
       st[4] * Cos5(0) * Sin5(st[5]) >>

(* The inertial Cartesian point of a state: position as in the resampling
   step, velocity as the East-North-Up velocity rotated into the planet frame *)
Spherical_to_Cartesian(st) ==
    LET pos == Position(st)
        v == MatVec(DCM_ENU_2_ECEF(st[2], st[3]), VelocityENU(st))
    IN  [ x |-> pos[1], y |-> pos[2], z |-> pos[3], vx |-> v[1], vy |-> v[2], vz |-> v[3] ]

-----------------------------------------------------------------------------
(* high_fidelity_simulation *)

(* Mutant of TerminalCondition: every index other than 0 is taken as velocity *)
TerminalConditionNoReject(ind, pl) ==
    IF ind = 0 THEN [raised |-> FALSE, value |-> pl.rp + TermAltitude]
    ELSE [raised |-> FALSE, value |-> MachOne]

TerminalCondition(ind, pl) ==
    IF ind = 0 THEN [raised |-> FALSE, value |-> pl.rp + TermAltitude]
    ELSE IF ind = 3 THEN [raised |-> FALSE, value |-> MachOne]
    ELSE [raised |-> TRUE, value |-> 0]

Init ==
    /\ pc = "start"
    /\ ODE_terminal_index \in TerminalIndices
    /\ planet \in Planets
    /\ init \in Inits
    /\ vehicle \in Vehicles
    /\ control \in Controls
    /\ return_states \in BOOLEAN
    /\ benchmark_file \in BOOLEAN
    /\ simulation_termination = None
    /\ t = 0
    /\ x = << >>
    /\ g = 0
    /\ ts = << >>
    /\ interpolants = << >>
    /\ status = None
    /\ n_steps = 0
    /\ ev = << >>
    /\ lookup = << >>
    /\ time_array = << >>
    /\ states = << >>
    /\ pos_inertial = << >>
    /\ vel_inertial = << >>
    /\ grid = None
    /\ result = None
    /\ err = None
    /\ PLANETS = PlanetRegistry(planet)
    /\ VEHICLES = VehicleRegistry(vehicle)
    /\ request = << >>
    /\ response = << >>
    /\ log = << >>
    /\ call = << >>
    /\ ret = << >>
    /\ tile_cache = << >>
    /\ upstream = << >>
    /\ fetched = << >>

Inputs == <<ODE_terminal_index, planet, init, vehicle, control, return_states, benchmark_file>>
Solver == <<t, x, g, ts, interpolants, status, n_steps, ev, lookup>>
Arrays == <<time_array, states, pos_inertial, vel_inertial, grid>>
Registry == <<PLANETS, VEHICLES>>
Server == <<request, response, log>>
Calls == <<call, ret>>
Tiles == <<tile_cache, upstream, fetched>>

(* lines 42-70 and the start of solve_ivp *)
SelectTermination ==
    /\ pc = "start"
    /\ LET selected == TerminalCondition(ODE_terminal_index, planet)
           terminal_condition == selected.value
           ODE_initial_cond == << planet.rp + init.h0, init.theta0, init.phi0,
                                  init.vel0, init.gamma0, init.psi0 >>
       IN  IF selected.raised
           THEN /\ pc' = "error"
                /\ err' = "ValueError"
                /\ UNCHANGED <<simulation_termination, Solver>>
           ELSE /\ simulation_termination' =
                      [ind |-> ODE_terminal_index, term |-> terminal_condition,
                       time_limit |-> TimeLimit, dt |-> DT]
                /\ x' = ODE_initial_cond
                /\ t' = 0
                /\ g' = EventValue(ODE_terminal_index, terminal_condition, ODE_initial_cond)
                /\ ts' = <<0>>
                /\ status' = "running"
                /\ pc' = "integrate"
                /\ UNCHANGED <<interpolants, n_steps, ev, lookup, err>>
    /\ UNCHANGED <<Inputs, Arrays, result>>
    /\ UNCHANGED <<Registry, Server, Calls, Tiles>>

(* the end of solve_ivp: OdeSolution(ts, interpolants) *)
SolveEnd(tseq) ==
    IF ValidTimes(tseq)
    THEN pc' = "resample" /\ err' = err
    ELSE pc' = "error" /\ err' = "ValueError"

(* solve_ivp: a step of the main loop *)
Step ==
    /\ pc = "integrate"
    /\ LET f == rhs(t, x)
           ind == simulation_termination.ind
           term == simulation_termination.term
       IN  /\ lookup' = << [h |-> x[1] - planet.rp, rho |-> Density(x[1], planet)] >>
           /\ IF ~f.finite
              THEN \* the step size collapses: status -1, no exception
                   /\ status' = "failed"
                   /\ SolveEnd(ts)
                   /\ UNCHANGED <<t, x, g, ts, interpolants, n_steps, ev>>
              ELSE \E h_abs \in MinStep .. MaxStep :
                   LET h == Min(h_abs, simulation_termination.time_limit - t)
                       t_new == t + h
                       y_new == Advance(x, f.d, h)
                       seg == [t_old |-> t, t |-> t_new, y_old |-> x, y |-> y_new]
                       g_new == EventValue(ind, term, y_new)
                   IN  /\ n_steps' = n_steps + 1
                       /\ interpolants' = Append(interpolants, seg)
                       /\ g' = g_new
                       /\ IF ActiveEvent(g, g_new, EventDirection) /\ EventTerminal
                          THEN LET te == Root(seg, ind, term) IN
                               /\ status' = "event"
                               /\ t' = te
                               /\ x' = DenseOutput(seg, te)
                               /\ ts' = Append(ts, te)
                               /\ ev' = << [g_old |-> g, g_new |-> g_new] >>
                               /\ SolveEnd(Append(ts, te))
                          ELSE /\ t' = t_new
                               /\ x' = y_new
                               /\ ts' = Append(ts, t_new)
                               /\ ev' = ev
                               /\ IF t_new = simulation_termination.time_limit
                                  THEN status' = "finished" /\ SolveEnd(Append(ts, t_new))
                                  ELSE status' = status /\ pc' = pc /\ err' = err
    /\ UNCHANGED <<Inputs, simulation_termination, Arrays, result>>
    /\ UNCHANGED <<Registry, Server, Calls, Tiles>>

(* lines 96-99: resample on the fixed grid *)
Resample ==
    /\ pc = "resample"
    /\ LET t_end == ts[Len(ts)]
           grid_times == Arange(0, t_end + Eps, simulation_termination.dt)
       IN  /\ time_array' = grid_times
           /\ IF Len(interpolants) = 0
              THEN \* sol.sol indexes an empty list of interpolants
                   /\ pc' = "error"
                   /\ err' = "IndexError"
                   /\ states' = states
              ELSE /\ states' = [ i \in 1 .. Len(grid_times) |->
                                    Sol(ts, interpolants, grid_times[i]) ]
                   /\ pc' = "benchmark"
                   /\ err' = err
    /\ UNCHANGED <<Inputs, simulation_termination, Solver, pos_inertial,
                   vel_inertial, grid, result>>
    /\ UNCHANGED <<Registry, Server, Calls, Tiles>>

(* lines 108-113: the benchmark file is loaded from the working directory *)
LoadBenchmark ==
    /\ pc = "benchmark"
    /\ IF benchmark_file
       THEN pc' = "convert" /\ err' = err
       ELSE pc' = "error" /\ err' = "FileNotFoundError"
    /\ UNCHANGED <<Inputs, simulation_termination, Solver, Arrays, result>>
    /\ UNCHANGED <<Registry, Server, Calls, Tiles>>

(* lines 132-151: positions, finite-difference velocities, trimming *)
Convert ==
    /\ pc = "convert"
    /\ LET dt == simulation_termination.dt
           pos == [ i \in 1 .. Len(time_array) |-> Position(states[i]) ]
       IN  IF Len(pos) < 2
           THEN \* pos_inertial[1,:] is out of bounds
                /\ pc' = "error"
                /\ err' = "IndexError"
                /\ UNCHANGED Arrays
           ELSE LET vel == FiniteDifference(pos, dt) IN
                /\ grid' = [time |-> time_array, pos |-> pos, vel |-> vel]
                /\ pos_inertial' = Trim(pos)
                /\ vel_inertial' = Trim(vel)
                /\ time_array' = Trim(time_array)
                /\ states' = states
                /\ pc' = "return"
                /\ err' = err
    /\ UNCHANGED <<Inputs, simulation_termination, Solver, result>>
    /\ UNCHANGED <<Registry, Server, Calls, Tiles>>

(* Mutant of Return: start_time_s is taken out of the init mapping with pop
   instead of being read with get *)
ReturnPop ==
    /\ pc = "return"
    /\ IF StartTime(init).kind = "none"
       THEN /\ pc' = "error"
            /\ err' = "TypeError"
            /\ result' = result
       ELSE /\ pc' = "done"
            /\ err' = err
            /\ result' =
                 IF return_states
                 THEN [time_s |-> Shift(time_array, StartTime(init).v),
                       states |-> states,
                       pos_inertial |-> pos_inertial,
                       vel_inertial |-> vel_inertial]
                 ELSE [time_s |-> Shift(time_array, StartTime(init).v),
                       x_m |-> Component(pos_inertial, 1),
                       y_m |-> Component(pos_inertial, 2),
                       z_m |-> Component(pos_inertial, 3),
                       vx_m_s |-> VelComponent(vel_inertial, 1),
                       vy_m_s |-> VelComponent(vel_inertial, 2),
                       vz_m_s |-> VelComponent(vel_inertial, 3)]
    /\ init' = [init EXCEPT !.start_time_s = Absent]
    /\ UNCHANGED <<ODE_terminal_index, planet, vehicle, control, return_states,
                   benchmark_file, simulation_termination, Solver, Arrays>>
    /\ UNCHANGED <<Registry, Server, Calls, Tiles>>

(* lines 157-174 *)
Return ==
    /\ pc = "return"
    /\ IF StartTime(init).kind = "none"
       THEN \* ndarray + None
            /\ pc' = "error"
            /\ err' = "TypeError"
            /\ result' = result
       ELSE /\ pc' = "done"
            /\ err' = err
            /\ result' =
                 IF return_states
                 THEN [time_s |-> Shift(time_array, StartTime(init).v),
                       states |-> states,
                       pos_inertial |-> pos_inertial,
                       vel_inertial |-> vel_inertial]
                 ELSE [time_s |-> Shift(time_array, StartTime(init).v),
                       x_m |-> Component(pos_inertial, 1),
                       y_m |-> Component(pos_inertial, 2),
                       z_m |-> Component(pos_inertial, 3),
                       vx_m_s |-> VelComponent(vel_inertial, 1),
                       vy_m_s |-> VelComponent(vel_inertial, 2),
                       vz_m_s |-> VelComponent(vel_inertial, 3)]
    /\ UNCHANGED <<Inputs, simulation_termination, Solver, Arrays>>
    /\ UNCHANGED <<Registry, Server, Calls, Tiles>>

Next ==
    \/ SelectTermination
    \/ Step
    \/ Resample
    \/ LoadBenchmark
    \/ Convert
    \/ Return

Spec == Init /\ [][Next]_vars

-----------------------------------------------------------------------------
(* The process before any propagation call *)

Propagation == <<Inputs, simulation_termination, Solver, Arrays, result>>

(* no propagation has been called *)
NoPropagation ==
    /\ ODE_terminal_index = 0
    /\ planet = << >>
    /\ init = << >>
    /\ vehicle = << >>
    /\ control = << >>
    /\ return_states = FALSE
    /\ simulation_termination = None
    /\ t = 0
    /\ x = << >>
    /\ g = 0
    /\ ts = << >>
    /\ interpolants = << >>
    /\ status = None
    /\ n_steps = 0
    /\ ev = << >>
    /\ lookup = << >>
    /\ time_array = << >>
    /\ states = << >>
    /\ pos_inertial = << >>
    /\ vel_inertial = << >>
    /\ grid = None
    /\ result = None

MarsPlanet == CHOOSE pl \in Planets : pl.atmosphere_model = AtmosphereLow
DefaultVehicle == CHOOSE veh \in Vehicles : TRUE

-----------------------------------------------------------------------------
(* The endpoint POST /high-fidelity/ (sim_server/main.py, simulate_high_fidelity):
   parse_simulation_params, high_fidelity_simulation, serialization *)

MarsMixedCase == <<77, 97, 114, 83>>                      \* "MarS"
VenusName == <<118, 101, 110, 117, 115>>                  \* "venus"
DefaultUpperCase == <<68, 69, 70, 65, 85, 76, 84>>        \* "DEFAULT"
ApolloName == <<97, 112, 111, 108, 108, 111>>             \* "apollo"

PlanetNames == { NoName, Name(MarsName), Name(MarsMixedCase), Name(VenusName) }
VehicleNames == { NoName, Name(DefaultUpperCase), Name(ApolloName) }
BankAngles == { NoneValue, Float(2) }

(* start_time_s of a request: null, omitted (the schema's default 0.0), a number *)
StartTimes == { NoneValue, Float(0), Float(3) }

SphericalInits ==
    [ coord_type : {"spherical"}, h0 : {9, 30}, vel0 : {5}, theta0 : {11}, phi0 : {1},
      gamma0 : {11}, psi0 : {0}, start_time_s : StartTimes ]

(* the same initial conditions, given as Cartesian position and velocity *)
CartesianInits ==
    { LET point == Spherical_to_Cartesian(<< MarsPlanet.rp + i.h0, i.theta0, i.phi0,
                                             i.vel0, i.gamma0, i.psi0 >>)
      IN  [ coord_type |-> "cartesian", x_m |-> point.x, y_m |-> point.y, z_m |-> point.z,
            vx_m_s |-> point.vx, vy_m_s |-> point.vy, vz_m_s |-> point.vz,
            start_time_s |-> i.start_time_s ] : i \in SphericalInits }

(* BaseModel.model_dump() of SphericalInitParams *)
model_dump(ini) ==
    [ coord_type |-> [kind |-> "str", s |-> ini.coord_type],
      h0 |-> Float(ini.h0), vel0 |-> Float(ini.vel0), theta0 |-> Float(ini.theta0),
      phi0 |-> Float(ini.phi0), gamma0 |-> Float(ini.gamma0), psi0 |-> Float(ini.psi0),
      start_time_s |-> ini.start_time_s ]

(* the init mapping as high_fidelity_simulation reads it: the six initial
   conditions and start_time_s, which may be missing *)
InitParams(d) ==
    [ h0 |-> d.h0.v, vel0 |-> d.vel0.v, theta0 |-> d.theta0.v, phi0 |-> d.phi0.v,
      gamma0 |-> d.gamma0.v, psi0 |-> d.psi0.v,
      start_time_s |-> IF "start_time_s" \in DOMAIN d THEN d.start_time_s ELSE Absent ]

Raised == [raised |-> TRUE, planet |-> << >>, init |-> << >>, vehicle |-> << >>,
           control |-> << >>]

(* Mutant of get_params: the name is looked up as given *)
get_params_exact(registry, name) == Get(registry, name)

(* get_planet_params and get_vehicle_params: the entry, or nothing when the
   function raises ValueError *)
get_params(registry, name) == Get(registry, Lower(name))

parse_simulation_params(req, planets, vehicles) ==
    LET planet_params == override_defaults(DEFAULT_PLANET, [planet_name |-> req.planet_name]).result
        vehicle_params == override_defaults(DEFAULT_VEHICLE, [vehicle_name |-> req.vehicle_name]).result
        control_params == override_defaults(DEFAULT_CONTROL, [bank_angle |-> req.bank_angle]).result
        planet_specific_params == get_params(planets, planet_params.planet_name.s)
        vehicle_specific_params == get_params(vehicles, vehicle_params.vehicle_name.s)
        spherical == Cartesian_to_Spherical(
                         [ x |-> req.init.x_m, y |-> req.init.y_m, z |-> req.init.z_m,
                           vx |-> req.init.vx_m_s, vy |-> req.init.vy_m_s,
                           vz |-> req.init.vz_m_s ])
        init_params ==
            IF req.init.coord_type = "cartesian"
            THEN [ h0 |-> spherical.r - planet_specific_params[1].rp,
                   vel0 |-> spherical.V, theta0 |-> spherical.theta, phi0 |-> spherical.phi,
                   gamma0 |-> spherical.gamma, psi0 |-> spherical.psi,
                   start_time_s |-> req.init.start_time_s ]
            ELSE InitParams(override_defaults(DEFAULT_INIT, model_dump(req.init)).result)
    IN  IF planet_specific_params = << >> \/ vehicle_specific_params = << >>
        THEN Raised
        ELSE [ raised |-> FALSE,
               planet |-> planet_specific_params[1],
               init |-> init_params,
               vehicle |-> vehicle_specific_params[1],
               control |-> [bank_angle |-> control_params.bank_angle.v] ]

(* the results mapping of high_fidelity_simulation: every value is an array *)
Arrays2Values(res) == [ key \in DOMAIN res |-> [kind |-> "ndarray", v |-> res[key]] ]

ServerInit ==
    /\ pc = "request"
    /\ \E planet_name \in PlanetNames, vehicle_name \in VehicleNames,
          bank_angle \in BankAngles, serialize_arrow \in BOOLEAN :
          \/ \E i \in SphericalInits :
                 request = [ planet_name |-> planet_name, init |-> i,
                             vehicle_name |-> vehicle_name, bank_angle |-> bank_angle,
                             serialize_arrow |-> serialize_arrow ]
          \/ \E i \in CartesianInits :
                 request = [ planet_name |-> planet_name, init |-> i,
                             vehicle_name |-> vehicle_name, bank_angle |-> bank_angle,
                             serialize_arrow |-> serialize_arrow ]
    /\ NoPropagation
    /\ benchmark_file \in BOOLEAN
    /\ err = None
    /\ PLANETS \in { PlanetRegistry(pl) : pl \in Planets }
    /\ VEHICLES = VehicleRegistry(DefaultVehicle)
    /\ response = << >>
    /\ log = << >>
    /\ call = << >>
    /\ ret = << >>
    /\ tile_cache = << >>
    /\ upstream = << >>
    /\ fetched = << >>

(* main.py lines 117-120 *)
ParseParams ==
    /\ pc = "request"
    /\ LET parsed == parse_simulation_params(request, PLANETS, VEHICLES)
       IN  IF parsed.raised
           THEN /\ pc' = "error"
                /\ err' = "ValueError"
                /\ UNCHANGED <<planet, init, vehicle, control>>
           ELSE /\ planet' = parsed.planet
                /\ init' = parsed.init
                /\ vehicle' = parsed.vehicle
                /\ control' = parsed.control
                /\ pc' = "start"
                /\ err' = err
    /\ UNCHANGED <<ODE_terminal_index, return_states, benchmark_file,
                   simulation_termination, Solver, Arrays, result>>
    /\ UNCHANGED <<Registry, Server, Calls, Tiles>>

(* main.py lines 132-142 and the log_timing wrapper *)
Respond ==
    /\ pc = "done"
    /\ IF Len(result.time_s) = 0
       THEN \* results['time_s'][-1] on an empty array
            /\ pc' = "error"
            /\ err' = "IndexError"
            /\ UNCHANGED <<response, log>>
       ELSE /\ log' = log \o
                  << [kind |-> "info", text |-> "=== FINAL SIMULATION RESULTS ==="],
                     [kind |-> "info", text |-> "Final time"],
                     [kind |-> "info", text |-> "Final velocity"],
                     [kind |-> "info", text |-> "simulate_high_fidelity executed"] >>
            /\ response' = serialize_simulation_results(Arrays2Values(result),
                                                       request.serialize_arrow)
            /\ pc' = "responded"
            /\ err' = err
    /\ UNCHANGED <<Propagation, Registry, request, Calls, Tiles>>

ServerNext ==
    \/ ParseParams
    \/ SelectTermination
    \/ Step
    \/ Resample
    \/ LoadBenchmark
    \/ Convert
    \/ Return
    \/ Respond

ServerSpec == ServerInit /\ [][ServerNext]_vars

-----------------------------------------------------------------------------
(* The tile proxy GET /tiles/mars/{z}/{x}/{y}.{ext} (sim_server/main.py,
   proxy_mars_tile).  One request is served; the awaited upstream request is
   a step of its own. *)

JpgExt == <<106, 112, 103>>        \* "jpg"
PngExt == <<112, 110, 103>>        \* "png"
PngUpperExt == <<80, 78, 71>>      \* "PNG"

TileRequests == [ z : {0}, x : {0}, y : {0, 1}, ext : {JpgExt, PngExt, PngUpperExt} ]

(* TILE_CACHE_DIR / str(z) / str(x) / f"{y}.{ext}" *)
CachePath(req) == [z |-> req.z, x |-> req.x, y |-> req.y, ext |-> req.ext]

(* the paths that may hold a file when the request arrives *)
CachePaths == { [z |-> 0, x |-> 0, y |-> 0, ext |-> JpgExt],
                [z |-> 0, x |-> 0, y |-> 1, ext |-> JpgExt],
                [z |-> 0, x |-> 0, y |-> 0, ext |-> PngExt] }

(* the bytes of a cached file and of an upstream tile, different for every
   file and every tile *)
CachedBytes(path) == 1 + 2 * path.y + (IF path.ext = JpgExt THEN 0 ELSE 1)
UpstreamBytes(y, ext) == 10 + 3 * y + (IF ext = JpgExt THEN 0 ELSE IF ext = PngExt THEN 1 ELSE 2)

(* the cache directory: its files, and whether a directory can be created
   ("dfail" when not) and a file written ("wfail" when not) *)
TileCaches ==
    { [ files |-> [ path \in CachePaths |->
                      [ exists |-> st[path] # "missing", readable |-> st[path] = "file",
                        data |-> CachedBytes(path) ] ],
        mode |-> mode ] :
        st \in [ CachePaths -> {"missing", "file", "unreadable"} ],
        mode \in {"rw", "wfail", "dfail"} }

(* what the upstream answers to the URL with a given extension: a response
   with a status code, or a transport error (httpx.RequestError) *)
Answers == { [kind |-> "response", status_code |-> 200],
             [kind |-> "response", status_code |-> 404],
             [kind |-> "error", status_code |-> 0] }

Upstreams == [ {JpgExt, PngExt, PngUpperExt} -> Answers ]

Exists(cache, path) == path \in DOMAIN cache.files /\ cache.files[path].exists

(* Mutant of CacheRead: the cache is not consulted *)
CacheReadSkipped(cache, path) == << >>

(* lines 61-74: the bytes of the cached file, or nothing when the file does
   not exist or read_bytes raises *)
CacheRead(cache, path) ==
    IF Exists(cache, path) /\ cache.files[path].readable
    THEN << cache.files[path].data >>
    ELSE << >>

(* lines 77-81 *)
Candidates(ext) == << ext, IF Lower(ext) = PngExt THEN JpgExt ELSE PngExt >>

(* lines 89-94: mkdir of the parent, then write_bytes, whose failure is ignored *)
CacheWrite(cache, path, content) ==
    IF cache.mode = "rw"
    THEN [ cache EXCEPT !.files =
             [ p \in (DOMAIN cache.files) \cup {path} |->
                 IF p = path THEN [exists |-> TRUE, readable |-> TRUE, data |-> content]
                 ELSE cache.files[p] ] ]
    ELSE cache

ContentType(ext) == IF Lower(ext) = PngExt THEN "image/png" ELSE "image/jpeg"

TileInit ==
    /\ pc = "tile"
    /\ request \in TileRequests
    /\ tile_cache \in TileCaches
    /\ upstream \in Upstreams
    /\ fetched = << >>
    /\ response = << >>
    /\ err = None
    /\ NoPropagation
    /\ benchmark_file = FALSE
    /\ PLANETS = PlanetRegistry(MarsPlanet)
    /\ VEHICLES = VehicleRegistry(DefaultVehicle)
    /\ log = << >>
    /\ call = << >>
    /\ ret = << >>

(* lines 60-81 *)
CacheLookup ==
    /\ pc = "tile"
    /\ LET data == CacheRead(tile_cache, CachePath(request))
       IN  IF data # << >>
           THEN /\ response' = [status_code |-> 200, content |-> data[1],
                                media_type |-> "image/jpeg"]
                /\ pc' = "responded"
           ELSE /\ response' = response
                /\ pc' = "fetch"
    /\ UNCHANGED <<err, Propagation, Registry, request, log, Calls, Tiles>>

(* lines 84-104: one upstream request and what follows it up to the next one *)
Fetch ==
    /\ pc = "fetch"
    /\ LET candidates == Candidates(request.ext)
           candidate_ext == candidates[Len(fetched) + 1]
           r == upstream[candidate_ext]
           content == UpstreamBytes(request.y, candidate_ext)
       IN  /\ fetched' = Append(fetched, candidate_ext)
           /\ IF r.kind = "error"
              THEN /\ response' = [status_code |-> 502, content |-> 0, media_type |-> "detail"]
                   /\ pc' = "responded"
                   /\ UNCHANGED <<tile_cache, err>>
              ELSE IF r.status_code = 200
              THEN IF tile_cache.mode = "dfail"
                   THEN \* mkdir raises outside the inner try
                        /\ pc' = "error"
                        /\ err' = "OSError"
                        /\ UNCHANGED <<tile_cache, response>>
                   ELSE /\ tile_cache' = CacheWrite(tile_cache, CachePath(request), content)
                        /\ response' = [status_code |-> 200, content |-> content,
                                        media_type |-> ContentType(candidate_ext)]
                        /\ pc' = "responded"
                        /\ err' = err
              ELSE IF Len(fetched) + 1 = Len(candidates)
              THEN /\ response' = [status_code |-> 404, content |-> 0, media_type |-> "detail"]
                   /\ pc' = "responded"
                   /\ UNCHANGED <<tile_cache, err>>
              ELSE /\ pc' = "fetch"
                   /\ UNCHANGED <<tile_cache, err, response>>
    /\ UNCHANGED <<Propagation, Registry, request, log, Calls, upstream>>

TileNext ==
    \/ CacheLookup
    \/ Fetch

TileSpec == TileInit /\ [][TileNext]_vars

-----------------------------------------------------------------------------
(* Calls of the helper functions on their own: override_defaults,
   serialize_simulation_results_to_lists, Cartesian_to_Spherical *)

(* the mappings with keys among keys and values among values *)
Dicts(keys, values) == UNION { [ d -> values ] : d \in SUBSET keys }

DefaultsKeys == {"h0", "psi0"}
OverridesKeys == {"h0", "psi0", "start_time_s"}

OverrideCalls ==
    [ fn : {"override_defaults"},
      defaults : Dicts(DefaultsKeys, {Float(1), Float(2)}),
      overrides : Dicts(OverridesKeys, {NoneValue, Float(2), Float(3)}) ]

ResultValues ==
    [ kind : {"ndarray", "list", "tuple"}, v : {<<1, 2>>} ]
        \cup [ kind : {"float64", "float"}, v : {1} ]

SerializeCalls ==
    [ fn : {"serialize_simulation_results_to_lists"},
      results : Dicts({"time_s", "x_m"}, ResultValues) ]

(* states (r, theta, phi, V, gamma, psi): angles inside and outside the
   principal ranges, the pole, vertical flight and zero speed included *)
SphericalStates ==
    { <<r, theta, phi, V, gamma, psi>> :
        r \in {1, 7}, theta \in {-5, -1, 0, 6, 7, 11}, phi \in {-2, 0, 1, 3},
        V \in {0, 2, 10}, gamma \in {-2, 0, 1, 3, 4}, psi \in {-5, 0, 2, 6, 8} }

ConversionCalls ==
    { [ fn |-> "Cartesian_to_Spherical", state |-> st,
        Cartesian_point |-> Spherical_to_Cartesian(st) ] : st \in SphericalStates }

CallInit ==
    /\ pc = "call"
    /\ \/ call \in OverrideCalls
       \/ call \in SerializeCalls
       \/ call \in ConversionCalls
    /\ ret = << >>
    /\ err = None
    /\ NoPropagation
    /\ benchmark_file = FALSE
    /\ PLANETS = PlanetRegistry(MarsPlanet)
    /\ VEHICLES = VehicleRegistry(DefaultVehicle)
    /\ request = << >>
    /\ response = << >>
    /\ log = << >>
    /\ tile_cache = << >>
    /\ upstream = << >>
    /\ fetched = << >>

CallOverrideDefaults ==
    /\ pc = "call"
    /\ call.fn = "override_defaults"
    /\ ret' = << override_defaults(call.defaults, call.overrides) >>
    /\ pc' = "returned"
    /\ UNCHANGED <<call, err, Propagation, Registry, Server, Tiles>>

CallSerialize ==
    /\ pc = "call"
    /\ call.fn = "serialize_simulation_results_to_lists"
    /\ ret' = << serialize_simulation_results_to_lists(call.results) >>
    /\ pc' = "returned"
    /\ UNCHANGED <<call, err, Propagation, Registry, Server, Tiles>>

CallCartesianToSpherical ==
    /\ pc = "call"
    /\ call.fn = "Cartesian_to_Spherical"
    /\ ret' = << Cartesian_to_Spherical(call.Cartesian_point) >>
    /\ pc' = "returned"
    /\ UNCHANGED <<call, err, Propagation, Registry, Server, Tiles>>

CallNext ==
    \/ CallOverrideDefaults
    \/ CallSerialize
    \/ CallCartesianToSpherical

CallSpec == CallInit /\ [][CallNext]_vars

-----------------------------------------------------------------------------
(* Properties *)

Integrated == status \in {"running", "event", "finished", "failed"}

Ended == pc \in {"done", "error"}

(* the monitored quantity at the two ends of accepted step i *)
GOld(i) == EventValue(simulation_termination.ind, simulation_termination.term,
                      interpolants[i].y_old)
GNew(i) == EventValue(simulation_termination.ind, simulation_termination.term,
                      interpolants[i].y)

(* the monitored quantity of the initial state *)
InitialState == << planet.rp + init.h0, init.theta0, init.phi0,
                   init.vel0, init.gamma0, init.psi0 >>

(* C1, as stated: the solver stops on an event only in a step over which the
   monitored quantity goes from above the threshold (g > 0) to not above it
   (g <= 0), it stops in the first such step, and no other step stops it. *)
C1_StopsOnPositiveToNegative ==
    Integrated =>
        \A i \in 1 .. Len(interpolants) :
            (status = "event" /\ i = Len(interpolants)) <=> (GOld(i) > 0 /\ GNew(i) <= 0)

(* C1, amended: the solver stops on an event exactly in the first step over
   which the monitored quantity goes from at or above the threshold (g >= 0)
   to at or below it (g <= 0); a step over which g goes from negative to
   positive never stops the integration. *)
C1_StopsOnFirstDownwardCrossing ==
    Integrated =>
        /\ \A i \in 1 .. Len(interpolants) :
               (status = "event" /\ i = Len(interpolants)) <=> (GOld(i) >= 0 /\ GNew(i) <= 0)
        /\ status = "event" => ev[1].g_old >= 0 /\ ev[1].g_new <= 0

(* a run that first crosses the threshold upwards, is not stopped, and is
   stopped by the later downward crossing *)
C1_Witness ==
    /\ status = "event"
    /\ ev[1].g_old > 0
    /\ ev[1].g_new < 0
    /\ \E i \in 1 .. Len(interpolants) : GOld(i) < 0 /\ GNew(i) > 0

(* C2: a run whose integration reached time_limit without an event never
   returns a result; it ends in a failure. *)
C2_TimeLimitIsReported ==
    (Integrated /\ status = "finished") => pc # "done"

(* C3: a run in which the derivative evaluation was non-finite ends with a
   SingularGeometry error. *)
C3_SingularGeometryIsRaised ==
    (Integrated /\ status = "failed" /\ Ended) => (pc = "error" /\ err = "SingularGeometry")

(* C4: a termination index other than 0 (radius) and 3 (velocity) is rejected
   with an error before the integration starts: the solver is never set up
   and no step is taken. *)
C4_InvalidIndexRejected ==
    (ODE_terminal_index \notin {0, 3} /\ pc # "start") =>
        /\ pc = "error"
        /\ err = "ValueError"
        /\ status = None
        /\ n_steps = 0
        /\ ts = << >>

C4_Witness ==
    /\ ODE_terminal_index \notin {0, 3}
    /\ pc = "error"
    /\ err = "ValueError"

(* C5: a call whose initial monitored quantity lies below the termination
   threshold is rejected before the integration: no solver step is taken. *)
C5_StartBelowThresholdRejected ==
    (Integrated /\ EventValue(simulation_termination.ind, simulation_termination.term,
                              InitialState) < 0)
        => n_steps = 0 /\ pc = "error"

(* the grid k*dt, k = 0 .. n-1 *)
UniformGrid(n, dt) == [ k \in 1 .. n |-> (k - 1) * dt ]

(* the returned times without the start_time_s offset *)
ReturnedGridTimes == [ i \in 1 .. Len(result.time_s) |-> result.time_s[i] - StartTime(init).v ]

(* C6, as stated: the grid is k*dt, k = 0..N-1, with (N-1)*dt the last grid
   point <= t_event, and the returned times are the grid points 1..N-2. *)
C6_GridUpToEventTime ==
    pc = "done" =>
        LET t_event == ts[Len(ts)]
            N == Cardinality({ k \in 0 .. t_event : k * DT <= t_event })
        IN  /\ grid.time = UniformGrid(N, DT)
            /\ ReturnedGridTimes = SubSeq(UniformGrid(N, DT), 2, N - 1)

(* C6, amended: the grid is k*dt, k = 0..N-1, with (N-1)*dt the last grid
   point below t_event + 1e-12 (so a grid point up to 1e-12 after t_event is
   included), and the returned times are exactly the grid points 1..N-2. *)
C6_GridUpToEventTimePlusEps ==
    pc = "done" =>
        LET t_event == ts[Len(ts)]
            N == Cardinality({ k \in 0 .. (t_event + Eps) : k * DT < t_event + Eps })
        IN  /\ grid.time = UniformGrid(N, DT)
            /\ ReturnedGridTimes = SubSeq(UniformGrid(N, DT), 2, N - 1)
            /\ Len(result.time_s) = N - 2

C6_Witness ==
    /\ pc = "done"
    /\ ts[Len(ts)] % DT = 0
    /\ status = "event"
    /\ Len(result.time_s) >= 2

(* C7: the returned times are strictly increasing and consecutive returned
   times differ by exactly dt. *)
C7_UniformTimeStep ==
    pc = "done" =>
        \A i \in 1 .. (Len(result.time_s) - 1) :
            /\ result.time_s[i] < result.time_s[i + 1]
            /\ result.time_s[i + 1] - result.time_s[i] = DT

C7_Witness ==
    /\ pc = "done"
    /\ Len(result.time_s) >= 3

(* C8: in a result returned with return_states the time, state, position and
   velocity sequences have the same length and row i of each belongs to the
   same grid instant. *)
C8_RowsAligned ==
    (pc = "done" /\ return_states) =>
        /\ Len(result.states) = Len(result.time_s)
        /\ Len(result.pos_inertial) = Len(result.time_s)
        /\ Len(result.vel_inertial) = Len(result.time_s)
        /\ \A i \in 1 .. Len(result.time_s) :
               Position(result.states[i]) = result.pos_inertial[i]

(* the velocity rows of the result, in either layout *)
ReturnedVel ==
    IF return_states THEN result.vel_inertial
    ELSE [ i \in 1 .. Len(result.time_s) |->
             [num |-> <<result.vx_m_s[i].num, result.vy_m_s[i].num, result.vz_m_s[i].num>>,
              den |-> result.vx_m_s[i].den] ]

(* C9: on the untrimmed grid the velocity is the central difference
   (pos[i+1] - pos[i-1]) / (2 dt) at interior points and the one-sided
   difference over dt at the two ends; every returned velocity is the central
   difference of the positions of its two grid neighbours. *)
C9_CentralDifferences ==
    pc = "done" =>
        LET n == Len(states)
            P(k) == Position(states[k])
        IN  /\ Len(grid.vel) = n
            /\ \A k \in 2 .. (n - 1) :
                   grid.vel[k] = [num |-> Diff(P(k + 1), P(k - 1)), den |-> 2 * DT]
            /\ grid.vel[1] = [num |-> Diff(P(2), P(1)), den |-> DT]
            /\ grid.vel[n] = [num |-> Diff(P(n), P(n - 1)), den |-> DT]
            /\ Len(ReturnedVel) = n - 2
            /\ \A j \in 1 .. (n - 2) :
                   ReturnedVel[j] = [num |-> Diff(P(j + 2), P(j)), den |-> 2 * DT]

C9_Witness ==
    /\ pc = "done"
    /\ Len(ReturnedVel) >= 2
    /\ \E j \in 1 .. Len(ReturnedVel) : \E c \in 1 .. 3 : ReturnedVel[j].num[c] # 0

(* C10: the density used at altitude h is the linear interpolation between
   the two bracketing rows of the table when h is inside the tabulated range
   (the tabulated density at a tabulated altitude), the first row's density
   below the range and the last row's density above it. *)
C10_DensityInterpolatedAndClamped ==
    Len(lookup) = 1 =>
        LET h == lookup[1].h
            rho == lookup[1].rho
            table == planet.atmosphere_model
            n == Len(table)
        IN  /\ rho.den > 0
            /\ h < table[1][1] => rho.num = rho.den * table[1][4]
            /\ h > table[n][1] => rho.num = rho.den * table[n][4]
            /\ \A i \in 1 .. n : h = table[i][1] => rho.num = rho.den * table[i][4]
            /\ \A i \in 1 .. (n - 1) :
                   (table[i][1] <= h /\ h <= table[i + 1][1]) =>
                       rho.num * (table[i + 1][1] - table[i][1]) =
                           rho.den * ( table[i][4] * (table[i + 1][1] - table[i][1])
                                       + (table[i + 1][4] - table[i][4]) * (h - table[i][1]) )

C10_Witness ==
    /\ Len(lookup) = 1
    /\ \E i \in 1 .. (Len(planet.atmosphere_model) - 1) :
           /\ planet.atmosphere_model[i][1] < lookup[1].h
           /\ lookup[1].h < planet.atmosphere_model[i + 1][1]
    /\ lookup[1].rho.den > 1

(* C11: a lookup at an altitude outside the tabulated range does not stop the
   run and uses the clamped density, and it leaves a diagnostic record naming
   the lookup, which an in-range lookup does not leave. *)
C11_OutOfRangeLookupIsReported ==
    Len(lookup) = 1 =>
        LET h == lookup[1].h
            alts == Column(planet.atmosphere_model, AltColumn)
            rhos == Column(planet.atmosphere_model, RhoColumn)
            outside == h < alts[1] \/ h > alts[Len(alts)]
            reported == \E i \in 1 .. Len(log) : log[i].kind = "lookup" /\ log[i].h = h
        IN  /\ outside => lookup[1].rho.num =
                              lookup[1].rho.den * (IF h < alts[1] THEN rhos[1] ELSE rhos[Len(rhos)])
            /\ outside <=> reported

(* C12: the outcome of a call is decided by its inputs alone: whether a file
   is present in the working directory never decides it, so no call ends
   because a file of the environment could not be read. *)
C12_IndependentOfEnvironment ==
    pc = "error" => err # "FileNotFoundError"

(* the direction index of an angle in the range (-pi, pi] *)
Principal(a) == IF Turn(a) > HalfTurn THEN Turn(a) - Len(CosTable) ELSE Turn(a)

Converted == pc = "returned" /\ call.fn = "Cartesian_to_Spherical"

NonPolar(st) == Cos5(st[3]) # 0

NonSingular(st) == st[1] > 0 /\ st[4] > 0 /\ Cos5(st[5]) # 0

(* C14, as stated: for a non-polar, non-singular state the round trip returns
   the original r, theta, phi, V, gamma and psi. *)
C14_RoundTripReturnsState ==
    (Converted /\ NonPolar(call.state) /\ NonSingular(call.state)) =>
        /\ ret[1].r = call.state[1]
        /\ ret[1].theta = call.state[2]
        /\ ret[1].phi = call.state[3]
        /\ ret[1].V = call.state[4]
        /\ ret[1].gamma = call.state[5]
        /\ ret[1].psi = call.state[6]

(* C14, amended: for a non-polar state with r > 0, V > 0 and cos(gamma) # 0
   the round trip returns the original r, phi and V, and returns theta, gamma
   and psi in the principal ranges of arctan2: theta and psi reduced to
   (-pi, pi] and gamma to (-pi/2, pi/2), where a gamma with cos(gamma) < 0
   comes back as pi - gamma together with psi + pi.  The angles returned are
   the original ones exactly when the original ones lie in these ranges. *)
C14_RoundTripReturnsPrincipalState ==
    (Converted /\ NonPolar(call.state) /\ NonSingular(call.state)) =>
        LET st == call.state
            forward == Cos5(st[5]) > 0
        IN  /\ ret[1].r = st[1]
            /\ ret[1].phi = st[3]
            /\ ret[1].V = st[4]
            /\ ret[1].theta = Principal(st[2])
            /\ ret[1].gamma = IF forward THEN Principal(st[5]) ELSE Principal(HalfTurn - st[5])
            /\ ret[1].psi = IF forward THEN Principal(st[6]) ELSE Principal(st[6] + HalfTurn)
            /\ (st[2] = Principal(st[2]) /\ st[6] = Principal(st[6]) /\ forward
                   /\ st[5] = Principal(st[5]))
                 <=> (ret[1].theta = st[2] /\ ret[1].gamma = st[5] /\ ret[1].psi = st[6])

(* a round trip of a state in the principal ranges with all six components
   different from zero, heading neither East nor North *)
C14_Witness ==
    /\ Converted
    /\ NonPolar(call.state)
    /\ NonSingular(call.state)
    /\ call.state = <<7, -1, 1, 10, -2, 2>>
    /\ ret[1].psi = 2
    /\ ret[1].theta = -1

Overridden == pc = "returned" /\ call.fn = "override_defaults"

(* C15: the mapping returned by override_defaults has every key of defaults;
   an override whose value is not None is in it with that value, whether its
   key is a key of defaults or not; an override whose value is None changes
   nothing (the default value stays, a key without default is not added);
   a key that is not overridden keeps its default; no other key appears; and
   the defaults mapping is after the call what it was before. *)
C15_OverridesReplaceNoneKeeps ==
    Overridden =>
        LET defaults == call.defaults
            overrides == call.overrides
            returned == ret[1].result
        IN  /\ DOMAIN defaults \subseteq DOMAIN returned
            /\ DOMAIN returned \subseteq (DOMAIN defaults) \cup (DOMAIN overrides)
            /\ \A k \in DOMAIN overrides :
                   IF overrides[k].kind # "none"
                   THEN k \in DOMAIN returned /\ returned[k] = overrides[k]
                   ELSE IF k \in DOMAIN defaults
                        THEN returned[k] = defaults[k]
                        ELSE k \notin DOMAIN returned
            /\ \A k \in (DOMAIN defaults) \ (DOMAIN overrides) : returned[k] = defaults[k]
            /\ ret[1].defaults = defaults

(* a call in which one override replaces a default by another value, one
   override is None for a key with a default, and one override adds a key *)
C15_Witness ==
    /\ Overridden
    /\ \E k \in DOMAIN call.defaults :
           /\ k \in DOMAIN call.overrides
           /\ call.overrides[k].kind # "none"
           /\ call.overrides[k] # call.defaults[k]
           /\ ret[1].result[k] = call.overrides[k]
    /\ \E k \in DOMAIN call.defaults :
           /\ k \in DOMAIN call.overrides
           /\ call.overrides[k].kind = "none"
           /\ ret[1].result[k] = call.defaults[k]
    /\ \E k \in (DOMAIN call.overrides) \ (DOMAIN call.defaults) :
           /\ call.overrides[k].kind # "none"
           /\ k \in DOMAIN ret[1].result

Serialized == pc = "returned" /\ call.fn = "serialize_simulation_results_to_lists"

(* C19: the mapping returned by serialize_simulation_results_to_lists has
   exactly the keys of its input; an array value is under its key as the list
   of its elements and every other value, a list or a tuple included, is
   under its key unchanged. *)
C19_SerializeKeepsEveryKey ==
    Serialized =>
        /\ DOMAIN ret[1] = DOMAIN call.results
        /\ \A key \in DOMAIN call.results :
               /\ key \in DOMAIN ret[1]
               /\ IF call.results[key].kind = "ndarray"
                  THEN ret[1][key] = [kind |-> "list", v |-> call.results[key].v]
                  ELSE IF call.results[key].kind = "float64"
                       THEN ret[1][key].v = call.results[key].v
                       ELSE ret[1][key] = call.results[key]

(* the request has been parsed and its run has been handed its inputs *)
Parsed == pc \notin {"request", "error"} \/ (pc = "error" /\ status # None)

(* C13: no step of a run changes the planet, vehicle, control or init record
   it was handed, and no step at all changes the PLANETS and VEHICLES
   registries; the planet and vehicle records of a run are the registry
   entries, and are still equal to them at every later step. *)
C13_InputsAndRegistriesUnchanged ==
    [][ /\ PLANETS' = PLANETS
        /\ VEHICLES' = VEHICLES
        /\ Parsed => /\ planet' = planet
                     /\ init' = init
                     /\ vehicle' = vehicle
                     /\ control' = control
                     /\ planet' = PLANETS'[MarsName]
                     /\ vehicle' = VEHICLES'[DefaultName] ]_vars

(* a request answered after a run of at least two solver steps whose init
   record carries a start time *)
C13_Witness ==
    /\ pc = "responded"
    /\ n_steps >= 2
    /\ init.start_time_s.kind = "float"
    /\ init.start_time_s.v > 0
    /\ planet = PLANETS[MarsName]

(* two strings that differ at most in the case of their letters *)
EqualIgnoringCase(a, b) ==
    /\ Len(a) = Len(b)
    /\ \A i \in 1 .. Len(a) :
           \/ a[i] = b[i]
           \/ a[i] \in 65 .. 90 /\ b[i] = a[i] + 32
           \/ b[i] \in 65 .. 90 /\ a[i] = b[i] + 32

(* the name a request asks for: the default when it gives none *)
Requested(name, default) == IF name.kind = "none" THEN default ELSE name.s

Known(name, registry) == \E key \in DOMAIN registry : EqualIgnoringCase(name, key)

(* the request failed in parse_simulation_params *)
ParseFailed == pc = "error" /\ err = "ValueError" /\ status = None

(* C16: a request whose planet and vehicle names are, up to the case of the
   letters, keys of the registries (an omitted name counting as "mars",
   respectively "default") is parsed without error and its run receives the
   registry entries of those keys; a request with a name that is not a key
   ends with ValueError before the simulation is set up: no solver state, no
   step, no lookup. *)
C16_NamesResolvedOrRejected ==
    pc # "request" =>
        LET planet_name == Requested(request.planet_name, MarsName)
            vehicle_name == Requested(request.vehicle_name, DefaultName)
        IN  IF Known(planet_name, PLANETS) /\ Known(vehicle_name, VEHICLES)
            THEN /\ ~ParseFailed
                 /\ \E key \in DOMAIN PLANETS :
                        EqualIgnoringCase(planet_name, key) /\ planet = PLANETS[key]
                 /\ \E key \in DOMAIN VEHICLES :
                        EqualIgnoringCase(vehicle_name, key) /\ vehicle = VEHICLES[key]
            ELSE /\ ParseFailed
                 /\ n_steps = 0
                 /\ ts = << >>
                 /\ lookup = << >>

(* a request naming the planet "MarS" and the vehicle "DEFAULT" whose run
   has taken a solver step *)
C16_Witness ==
    /\ pc \notin {"request", "error"}
    /\ request.planet_name = Name(MarsMixedCase)
    /\ request.vehicle_name = Name(DefaultUpperCase)
    /\ n_steps >= 1
    /\ planet = PLANETS[MarsName]

(* C17: the resampling, finite-difference and trimming steps never fail with
   an indexing error, whatever the termination time, and a returned result
   has time, position and velocity sequences of one length. *)
C17_ShortRunsComplete ==
    /\ pc = "error" => err # "IndexError"
    /\ pc = "done" =>
           /\ Len(ReturnedVel) = Len(result.time_s)
           /\ IF return_states
              THEN Len(result.pos_inertial) = Len(result.time_s)
              ELSE /\ Len(result.x_m) = Len(result.time_s)
                   /\ Len(result.y_m) = Len(result.time_s)
                   /\ Len(result.z_m) = Len(result.time_s)

(* the offset a request asks for: 0 for a null start_time_s *)
RequestedOffset ==
    IF request.init.start_time_s.kind = "none" THEN 0 ELSE request.init.start_time_s.v

(* C18: a run that reaches the return step returns, and the returned time_s
   is the trimmed grid shifted by the start_time_s of the request, a null or
   omitted start_time_s shifting by 0, for spherical and for Cartesian
   initial conditions alike. *)
C18_TimeOffsetByStartTime ==
    /\ pc = "error" => err # "TypeError"
    /\ pc \in {"done", "responded"} => result.time_s = Shift(time_array, RequestedOffset)

(* C20: when the tile request is looked up in the cache and the file of the
   requested (z, x, y, ext) exists and can be read, the request is answered
   at once with the bytes of that file and no upstream request has been
   made; when the file exists and cannot be read, the request is not
   answered and does not fail but goes on to the upstream fetch. *)
C20_CacheHitServedLocally ==
    [][ pc = "tile" =>
          LET path == CachePath(request)
              file == tile_cache.files[path]
          IN  /\ (Exists(tile_cache, path) /\ file.readable) =>
                     /\ pc' = "responded"
                     /\ response'.status_code = 200
                     /\ response'.content = file.data
                     /\ fetched' = << >>
                     /\ tile_cache' = tile_cache
              /\ (Exists(tile_cache, path) /\ ~file.readable) =>
                     /\ pc' = "fetch"
                     /\ err' = None
                     /\ response' = << >>
                     /\ Len(Candidates(request.ext)) > Len(fetched') ]_vars

(* a request answered from the cache without an upstream request, while the
   cache holds another readable file with other bytes and the upstream would
   have answered with a tile of its own *)
C20_Witness ==
    /\ pc = "responded"
    /\ fetched = << >>
    /\ Exists(tile_cache, CachePath(request))
    /\ response.content = tile_cache.files[CachePath(request)].data
    /\ upstream[request.ext].status_code = 200
    /\ \E other \in DOMAIN tile_cache.files :
           /\ other # CachePath(request)
           /\ tile_cache.files[other].readable
           /\ tile_cache.files[other].data # response.content

(* the upstream requests a cache miss may make, in order: the requested
   extension, then jpg when png was requested (in any case) and png otherwise *)
Asked == << request.ext, IF EqualIgnoringCase(request.ext, PngExt) THEN JpgExt ELSE PngExt >>

(* the request went to the upstream: the cache had no readable file for it *)
CacheMiss == pc = "fetch" \/ fetched # << >>

(* C21: on a cache miss the upstream is asked for the requested extension
   first and for the other of jpg/png second, the second only after the
   first answered with a status other than 200; the request never fails with
   an unhandled error, and when it has ended, a 200 answer of the last
   candidate asked is returned as the tile with status 200, a transport
   error of the last request gives HTTP 502, and two answers other than 200
   give HTTP 404. *)
C21_CacheMissFallbackAndErrors ==
    CacheMiss =>
      /\ Len(fetched) <= 2
      /\ \A i \in 1 .. Len(fetched) : fetched[i] = Asked[i]
      /\ Len(fetched) = 2 =>
             /\ upstream[fetched[1]].kind = "response"
             /\ upstream[fetched[1]].status_code # 200
      /\ pc # "error"
      /\ pc = "responded" =>
             LET last == fetched[Len(fetched)]
                 r == upstream[last]
             IN  IF r.kind = "error"
                 THEN response.status_code = 502
                 ELSE IF r.status_code = 200
                 THEN /\ response.status_code = 200
                      /\ response.content = UpstreamBytes(request.y, last)
                 ELSE /\ Len(fetched) = 2
                      /\ response.status_code = 404

====
